---- MODULE Spec2Model ----
(***************************************************************************)
(* Model of SpiderWebBacktest (src/backtest_engine.py): the engine's       *)
(* configuration, the price series handed to run(), the locals of run()    *)
(* as the loop advances, the per-step arrays it appends to and the         *)
(* BacktestResult it returns (or the exception it raises).                 *)
(*                                                                         *)
(* Arithmetic.  The engine computes in floating point; the model computes  *)
(* the same expressions over exact rationals.  An amount of money is a     *)
(* record [w, m] standing for w + m/Scale with 0 <= m < Scale, so that an  *)
(* initial capital of 1,000,000 with the default fee rates stays inside    *)
(* the model checker's integers.  Rates (fee, tax, carry) are multiples of *)
(* 1/Scale: the default fee rate 0.001425 is 57/Scale and the default tax  *)
(* rate 0.003 is 120/Scale.                                                *)
(***************************************************************************)
EXTENDS Integers, Sequences, FiniteSets, TLC

\* Denominator of the fixed-point part of an amount: 0.001425 = 57/40000.
Scale == 40000

\* Longest price series drawn for the bounded inputs.
MaxLen == 3

----------------------------------------------------------------------------
(* Amounts of money: [w |-> whole units, m |-> numerator of m/Scale].      *)

Abs(n) == IF n < 0 THEN -n ELSE n

Sgn(n) == IF n < 0 THEN -1 ELSE IF n > 0 THEN 1 ELSE 0

MNorm(w, x) == [w |-> w + (x \div Scale), m |-> x % Scale]

MInt(n) == [w |-> n, m |-> 0]

MAdd(a, b) == MNorm(a.w + b.w, a.m + b.m)

MNeg(a) == IF a.m = 0 THEN [w |-> -a.w, m |-> 0]
                      ELSE [w |-> -a.w - 1, m |-> Scale - a.m]

MSub(a, b) == MAdd(a, MNeg(b))

MSgn(a) == IF a.w < 0 THEN -1 ELSE IF a.w = 0 /\ a.m = 0 THEN 0 ELSE 1

MAbs(a) == IF a.w < 0 THEN MNeg(a) ELSE a

MLeq(a, b) == a.w < b.w \/ (a.w = b.w /\ a.m <= b.m)

MLt(a, b) == a.w < b.w \/ (a.w = b.w /\ a.m < b.m)

MMax(a, b) == IF MLeq(a, b) THEN b ELSE a

\* floor(a * num / den) for an amount a >= 0 and integers num >= 0, den > 0.
MFloorMulDiv(a, num, den) ==
    LET q == (a.w * num) \div den
        r == (a.w * num) % den
    IN  q + ((r * Scale + a.m * num) \div (den * Scale))

\* Whether a * num / den is an integer (a >= 0, num >= 0, den > 0).
MExactMulDiv(a, num, den) ==
    LET r == (a.w * num) % den
    IN  (r * Scale + a.m * num) % (den * Scale) = 0

----------------------------------------------------------------------------
(* Dates: a date is the number of days since Monday 2024-01-01; the model  *)
(* covers the years 2024 (leap) and 2025.                                  *)

Year(d) == IF d < 366 THEN 2024 ELSE 2025

DayOfYear(d) == IF d < 366 THEN d ELSE d - 366

\* Days before each month, for the year of d.
MonthStart(d) ==
    IF d < 366
    THEN <<0, 31, 60, 91, 121, 152, 182, 213, 244, 274, 305, 335>>
    ELSE <<0, 31, 59, 90, 120, 151, 181, 212, 243, 273, 304, 334>>

\* pd.Timestamp.month
Month(d) ==
    LET s == MonthStart(d)
    IN  CHOOSE k \in 1..12 :
          /\ s[k] <= DayOfYear(d)
          /\ (k = 12 \/ DayOfYear(d) < s[k + 1])

DayOfMonth(d) == DayOfYear(d) - MonthStart(d)[Month(d)] + 1

\* pd.Timestamp.isocalendar()[1]: day 0 is a Monday and is in ISO week 1 of
\* 2024; 2024 and 2025 both have 52 ISO weeks.
IsoWeek(d) == ((d \div 7) % 52) + 1

\* str(date.date()): the "YYYY-MM-DD" text, as its three fields.
DateStr(d) == <<Year(d), Month(d), DayOfMonth(d)>>

----------------------------------------------------------------------------
(* Configuration (SpiderWebBacktest.__init__) and inputs.                  *)

Half == [num |-> 1, den |-> 2]

One == [num |-> 1, den |-> 1]

Two == [num |-> 2, den |-> 1]

\* kelly_f, as exact fractions: 0.5, 1.0 and 2.0 (the values compare_f runs).
KellyFs == {Half, One, Two}

RebalanceFreqs == {"daily", "weekly", "monthly"}

\* Fee schedules: none at all, and the constructor's defaults
\* (fee 0.001425 = 57/Scale, tax 0.003 = 120/Scale, 22 per contract).
FeeSchedules ==
    { [fee_rate |-> 0, tax_rate |-> 0, futures_fee |-> 0],
      [fee_rate |-> 57, tax_rate |-> 120, futures_fee |-> 22] }

\* backwardation_rate as a numerator over Scale: 0 and 2016/40000 = 5.04 %
\* a year, which is 8/40000 a day.
BackwardationRates == {0, 2016}

\* __init__: the engine as constructed.
Engine(f, capital, freq, fees, futures, carry) ==
    [ f |-> f,
      initial_capital |-> capital,
      rebalance_freq |-> freq,
      fee_rate |-> fees.fee_rate,
      tax_rate |-> fees.tax_rate,
      futures_mode |-> futures,
      contract_multiplier |-> 10,
      futures_fee |-> fees.futures_fee,
      backwardation_rate |-> carry,
      daily_backwardation |-> carry \div 252 ]

Engines ==
    { Engine(f, 1000, freq, fees, futures, carry) :
        f \in KellyFs, freq \in RebalanceFreqs, fees \in FeeSchedules,
        futures \in BOOLEAN, carry \in BackwardationRates }

\* Dates of the bounded series: 2024-01-01 (Mon), 2024-01-02, 2024-01-08
\* (next week), 2024-02-01 (next month), 2025-01-01 (same month number and
\* same ISO week number as 2024-01-01, a year later).
DateSet == {0, 1, 7, 31, 366}

PriceSet == {3, 7, 10}

\* Closing prices a malformed series may hold as well.
AnyPriceSet == {-3, 0, 7}

\* Strictly increasing date sequences of length n.
DateSeqs(n) ==
    { ds \in [1..n -> DateSet] : \A k \in 1..(n - 1) : ds[k] < ds[k + 1] }

\* DataFrames with columns DATE and CLOSE, sorted by DATE, index 0..n-1.
Frames(n, closes) ==
    { [k \in 1..n |-> [DATE |-> ds[k], CLOSE |-> ps[k]]] :
        ds \in DateSeqs(n), ps \in [1..n -> closes] }

\* run_simple_test: the article's price path on consecutive days from
\* 2024-01-01.
ReferencePrices == <<100, 80, 64, 51, 40, 32, 40, 51, 64, 80, 100>>

ReferenceFrame ==
    [k \in 1..Len(ReferencePrices) |->
        [DATE |-> k - 1, CLOSE |-> ReferencePrices[k]]]

\* run_simple_test's engine (defaults but kelly_f), for kelly_f 0.5 and 2.0.
ReferenceEngines ==
    { Engine(f, 1000000, "daily",
             [fee_rate |-> 57, tax_rate |-> 120, futures_fee |-> 22],
             FALSE, 0) : f \in {Half, Two} }

----------------------------------------------------------------------------
VARIABLES
    engine,               \* self: the configuration
    data,                 \* the DataFrame given to run()
    pc,                   \* "ready", "loop", "returned" or "raised"
    i,                    \* loop index (0-based, as in the code)
    cap, price, vol,      \* target strategy: capital, last price, position
    bh_cap, bh_vol,       \* static buy-and-hold baseline
    bh_rebal_cap, bh_rebal_vol, bh_rebal_prev_month,   \* monthly baseline
    prev_date,
    total_trade_cost,
    dates, prices, capitals, volumes, trades, trade_reasons,
    buy_hold_capitals, buy_hold_rebal_capitals,
    result,               \* the BacktestResult's scalar fields, once returned
    exc,                  \* the exception run() raised, if any
    history               \* what earlier calls of run() gave their caller

locals == <<cap, price, vol, bh_cap, bh_vol, bh_rebal_cap, bh_rebal_vol,
            bh_rebal_prev_month, prev_date, total_trade_cost>>

arrays == <<dates, prices, capitals, volumes, trades, trade_reasons,
            buy_hold_capitals, buy_hold_rebal_capitals>>

vars == <<engine, data, pc, i, locals, arrays, result, exc, history>>

\* Python's None, and a value that is present.
None == << >>

Some(x) == <<x>>

----------------------------------------------------------------------------
(* Helpers of run().                                                       *)

\* price * contract_multiplier in futures mode, price in stock mode: the
\* divisor of every position sizing and the factor of every P&L.
Multiplier(e) == IF e.futures_mode THEN e.contract_multiplier ELSE 1

\* Mutant of SizePosition: floor division in place of int().
SizePositionFloor(capital, f, unit) ==
    LET mag == MFloorMulDiv(MAbs(capital), f.num, f.den * Abs(unit))
        exact == MExactMulDiv(MAbs(capital), f.num, f.den * Abs(unit))
    IN  IF MSgn(capital) * Sgn(unit) >= 0 THEN mag
        ELSE IF exact THEN -mag ELSE -mag - 1

\* int(capital * f / unit): Python's int() truncates toward zero.
\* Defined for unit # 0.
SizePosition(capital, f, unit) ==
    MSgn(capital) * Sgn(unit)
      * MFloorMulDiv(MAbs(capital), f.num, f.den * Abs(unit))

\* With unit = 0 numpy's division yields inf (or nan for 0/0) and int()
\* raises.
SizeRaises(capital, f, unit) == unit = 0

SizeException(capital, f) ==
    IF MSgn(capital) = 0 \/ f.num = 0 THEN "ValueError" ELSE "OverflowError"

\* Mutant of ShouldRebalance: the per-bar cadence is treated as weekly.
ShouldRebalanceWeekly(e, date, prev) ==
    IF prev = None THEN TRUE
    ELSE IF e.rebalance_freq = "monthly" THEN Month(date) # Month(prev[1])
    ELSE IsoWeek(date) # IsoWeek(prev[1])

\* Mutant of ShouldRebalance: weeks and months of different years differ.
ShouldRebalanceYearAware(e, date, prev) ==
    IF prev = None THEN TRUE
    ELSE IF e.rebalance_freq = "daily" THEN TRUE
    ELSE IF e.rebalance_freq = "weekly"
    THEN <<Year(date), IsoWeek(date)>> # <<Year(prev[1]), IsoWeek(prev[1])>>
    ELSE IF e.rebalance_freq = "monthly"
    THEN <<Year(date), Month(date)>> # <<Year(prev[1]), Month(prev[1])>>
    ELSE TRUE

\* _should_rebalance
ShouldRebalance(e, date, prev) ==
    IF prev = None THEN TRUE
    ELSE IF e.rebalance_freq = "daily" THEN TRUE
    ELSE IF e.rebalance_freq = "weekly" THEN IsoWeek(date) # IsoWeek(prev[1])
    ELSE IF e.rebalance_freq = "monthly" THEN Month(date) # Month(prev[1])
    ELSE TRUE

\* Mutant of CalculateTradeCost: the tax is charged on buys as well.
CalculateTradeCostTaxed(e, trade_value, is_sell, contracts) ==
    IF e.futures_mode
    THEN MInt(Abs(contracts) * e.futures_fee)
    ELSE MNorm(0, Abs(trade_value) * e.fee_rate
                  + Abs(trade_value) * e.tax_rate)

\* _calculate_trade_cost, as an amount.
CalculateTradeCost(e, trade_value, is_sell, contracts) ==
    IF e.futures_mode
    THEN MInt(Abs(contracts) * e.futures_fee)
    ELSE MNorm(0, Abs(trade_value) * e.fee_rate
                  + (IF is_sell THEN Abs(trade_value) * e.tax_rate ELSE 0))

\* Mutant of StepPnl: the carry accrues on the value at the new price.
StepPnlCarryAfter(e, position, p, delta_p) ==
    IF e.futures_mode
    THEN MAdd(MInt(position * delta_p * e.contract_multiplier),
              IF e.daily_backwardation > 0
              THEN MNorm(0, position * (p + delta_p) * e.contract_multiplier
                              * e.daily_backwardation)
              ELSE MInt(0))
    ELSE MInt(position * delta_p)

\* Mutant of StepPnl: a contract's profit is not scaled by the multiplier.
StepPnlNoMultiplier(e, position, p, delta_p) ==
    IF e.futures_mode
    THEN MAdd(MInt(position * delta_p),
              IF e.daily_backwardation > 0
              THEN MNorm(0, position * p * e.contract_multiplier
                              * e.daily_backwardation)
              ELSE MInt(0))
    ELSE MInt(position * delta_p)

\* Lines 206-222: the step's profit on a position held at old price p:
\* mark-to-market, plus the carry income in futures mode when the daily
\* rate is positive.
StepPnl(e, position, p, delta_p) ==
    IF e.futures_mode
    THEN MAdd(MInt(position * delta_p * e.contract_multiplier),
              IF e.daily_backwardation > 0
              THEN MNorm(0, position * p * e.contract_multiplier
                              * e.daily_backwardation)
              ELSE MInt(0))
    ELSE MInt(position * delta_p)

\* Mutant of Reason: a step without trade is tagged as a buy.
ReasonNoHold(bs) ==
    IF bs >= 0 THEN "add on decline" ELSE "reduce on rise"

\* Lines 265-270: the rationale text, by its kind.
Reason(bs) ==
    IF bs > 0 THEN "add on decline"
    ELSE IF bs < 0 THEN "reduce on rise"
    ELSE "hold"

----------------------------------------------------------------------------
(* The state after construction, before run() is called.                   *)

Blank ==
    /\ pc = "ready"
    /\ i = 0
    /\ cap = MInt(0) /\ price = 0 /\ vol = 0
    /\ bh_cap = MInt(0) /\ bh_vol = 0
    /\ bh_rebal_cap = MInt(0) /\ bh_rebal_vol = 0
    /\ bh_rebal_prev_month = None
    /\ prev_date = None
    /\ total_trade_cost = MInt(0)
    /\ dates = << >> /\ prices = << >> /\ capitals = << >>
    /\ volumes = << >> /\ trades = << >> /\ trade_reasons = << >>
    /\ buy_hold_capitals = << >> /\ buy_hold_rebal_capitals = << >>
    /\ result = None
    /\ exc = None
    /\ history = << >>

\* Well-formed inputs: a non-empty series of positive prices, or
\* run_simple_test's reference run.
Init ==
    /\ \/ /\ engine \in Engines
          /\ \E n \in 1..MaxLen : data \in Frames(n, PriceSet)
       \/ /\ engine \in ReferenceEngines
          /\ data = ReferenceFrame
    /\ Blank

\* Any input, malformed ones included: an empty series, non-positive
\* prices.
InitAny ==
    /\ engine \in Engines
    /\ \E n \in 0..MaxLen : data \in Frames(n, AnyPriceSet)
    /\ Blank

Raise(name) ==
    /\ pc' = "raised"
    /\ exc' = Some(name)

\* The lists of an earlier call carried over into the next.
ReusedList(old) == old

\* Lines 151-158: each call of run() starts from lists of its own.
NewList(old) == << >>

\* Lines 151-184: the locals of run() before the loop.
RunBegin ==
    /\ pc = "ready"
    /\ IF Len(data) = 0
       THEN \* data.loc[0, 'CLOSE'] on an empty frame
            /\ Raise("KeyError")
            /\ UNCHANGED <<i, locals>>
       ELSE LET p0 == data[1].CLOSE
                c0 == MInt(engine.initial_capital)
                unit == p0 * Multiplier(engine)
            IN  IF SizeRaises(c0, engine.f, unit)
                THEN /\ Raise(SizeException(c0, engine.f))
                     /\ UNCHANGED <<i, locals>>
                ELSE /\ pc' = "loop"
                     /\ i' = 0
                     /\ cap' = c0
                     /\ price' = p0
                     /\ vol' = SizePosition(c0, engine.f, unit)
                     /\ bh_vol' = SizePosition(c0, engine.f, unit)
                     /\ bh_rebal_vol' = SizePosition(c0, engine.f, unit)
                     /\ bh_cap' = c0
                     /\ bh_rebal_cap' = c0
                     /\ bh_rebal_prev_month' = None
                     /\ prev_date' = None
                     /\ total_trade_cost' = MInt(0)
                     /\ exc' = exc
    /\ dates' = NewList(dates)
    /\ prices' = NewList(prices)
    /\ capitals' = NewList(capitals)
    /\ volumes' = NewList(volumes)
    /\ trades' = NewList(trades)
    /\ trade_reasons' = NewList(trade_reasons)
    /\ buy_hold_capitals' = NewList(buy_hold_capitals)
    /\ buy_hold_rebal_capitals' = NewList(buy_hold_rebal_capitals)
    /\ UNCHANGED <<engine, data, result, history>>

\* Mutant of FirstRecord: the initial entry is not recorded as a trade.
FirstRecordNoTrade(capital, position) ==
    [capital |-> capital, volume |-> position, trade |-> 0,
     reason |-> "initial entry"]

\* Lines 195-198: what the first record holds for the target strategy: the
\* initial capital, the initial position, and that position as the trade.
FirstRecord(capital, position) ==
    [capital |-> capital, volume |-> position, trade |-> position,
     reason |-> "initial entry"]

\* Lines 191-202: the first record.
LoopFirst ==
    /\ pc = "loop"
    /\ i = 0
    /\ i < Len(data)
    /\ LET row == data[i + 1]
           first == FirstRecord(cap, vol)
       IN  /\ dates' = Append(dates, DateStr(row.DATE))
           /\ prices' = Append(prices, row.CLOSE)
           /\ capitals' = Append(capitals, first.capital)
           /\ volumes' = Append(volumes, first.volume)
           /\ trades' = Append(trades, first.trade)
           /\ trade_reasons' = Append(trade_reasons, first.reason)
           /\ buy_hold_capitals' = Append(buy_hold_capitals, bh_cap)
           /\ prev_date' = Some(row.DATE)
           /\ price' = row.CLOSE
    /\ i' = i + 1
    /\ UNCHANGED <<engine, data, pc, cap, vol, bh_cap, bh_vol, bh_rebal_cap,
                   bh_rebal_vol, bh_rebal_prev_month, total_trade_cost,
                   buy_hold_rebal_capitals, result, exc, history>>

\* Mutant of RebalMonthChanged: the monthly baseline re-sizes when the
\* target rebalances.
RebalFollowsTarget(date, prev_month) ==
    ShouldRebalance(engine, date, prev_date)

\* Mutant of RebalMonthChanged: no re-sizing until a month is recorded.
RebalMonthChangedRecorded(date, prev_month) ==
    prev_month # None /\ Month(date) # prev_month[1]

\* Lines 229-231 and 237-239: the monthly baseline re-sizes when it has no
\* month recorded yet or the month changed.
RebalMonthChanged(date, prev_month) ==
    prev_month = None \/ Month(date) # prev_month[1]

\* Mutant of Rebalance: the recorded trade is the whole target position.
RebalanceGross(e, capital, position, new_price) ==
    LET target_vol == SizePosition(capital, e.f, new_price * Multiplier(e))
        bs == target_vol
        trade_value == Abs(bs * new_price * Multiplier(e))
        trade_cost == CalculateTradeCost(e, trade_value, bs < 0, bs)
    IN  [bs |-> bs, cost |-> trade_cost,
         cap |-> MSub(capital, trade_cost), vol |-> target_vol]

\* Mutant of Rebalance: the trading cost is computed but never deducted.
RebalanceFree(e, capital, position, new_price) ==
    LET target_vol == SizePosition(capital, e.f, new_price * Multiplier(e))
        bs == target_vol - position
        trade_value == Abs(bs * new_price * Multiplier(e))
        trade_cost == CalculateTradeCost(e, trade_value, bs < 0, bs)
    IN  [bs |-> bs, cost |-> trade_cost, cap |-> capital, vol |-> target_vol]

\* Lines 243-260: the target's rebalance at new_price, from the capital
\* after the step's profit: the trade, its cost, the capital after the cost
\* and the new position.
Rebalance(e, capital, position, new_price) ==
    LET target_vol == SizePosition(capital, e.f, new_price * Multiplier(e))
        bs == target_vol - position
        trade_value == Abs(bs * new_price * Multiplier(e))
        trade_cost == CalculateTradeCost(e, trade_value, bs < 0, bs)
    IN  [bs |-> bs, cost |-> trade_cost,
         cap |-> MSub(capital, trade_cost), vol |-> target_vol]

\* Lines 261-262: no rebalance at this step.
Hold(capital, position) ==
    [bs |-> 0, cost |-> MInt(0), cap |-> capital, vol |-> position]

\* Mutant of StaticStep: the static baseline is re-sized at every step.
StaticStepRebalanced(e, capital, position, p, new_price) ==
    LET c == MAdd(capital, StepPnl(e, position, p, new_price - p))
    IN  [cap |-> c,
         vol |-> SizePosition(c, e.f, new_price * Multiplier(e))]

\* Lines 209-225 and 235: the static baseline's step.  Its capital takes the
\* step's profit on its position; nothing in the loop assigns bh_vol.
StaticStep(e, capital, position, p, new_price) ==
    [cap |-> MAdd(capital, StepPnl(e, position, p, new_price - p)),
     vol |-> position]

\* Lines 204-283: one record after the first.
LoopStep ==
    /\ pc = "loop"
    /\ i > 0
    /\ i < Len(data)
    /\ LET row == data[i + 1]
           date == row.DATE
           new_price == row.CLOSE
           delta_p == new_price - price
           unit == new_price * Multiplier(engine)
           cap1 == MAdd(cap, StepPnl(engine, vol, price, delta_p))
           bh == StaticStep(engine, bh_cap, bh_vol, price, new_price)
           bh_rebal_cap1 ==
               MAdd(bh_rebal_cap,
                    StepPnl(engine, bh_rebal_vol, price, delta_p))
           rebal == RebalMonthChanged(date, bh_rebal_prev_month)
           decide == ShouldRebalance(engine, date, prev_date)
       IN  IF rebal /\ SizeRaises(bh_rebal_cap1, engine.f, unit)
           THEN /\ Raise(SizeException(bh_rebal_cap1, engine.f))
                /\ UNCHANGED <<i, locals, arrays>>
           ELSE IF decide /\ SizeRaises(cap1, engine.f, unit)
           THEN /\ Raise(SizeException(cap1, engine.f))
                /\ UNCHANGED <<i, locals, arrays>>
           ELSE LET t == IF decide
                         THEN Rebalance(engine, cap1, vol, new_price)
                         ELSE Hold(cap1, vol)
                IN  /\ bh_cap' = bh.cap
                    /\ bh_vol' = bh.vol
                    /\ bh_rebal_cap' = bh_rebal_cap1
                    /\ bh_rebal_vol' =
                         IF rebal
                         THEN SizePosition(bh_rebal_cap1, engine.f, unit)
                         ELSE bh_rebal_vol
                    /\ bh_rebal_prev_month' =
                         IF rebal THEN Some(Month(date))
                         ELSE bh_rebal_prev_month
                    /\ cap' = t.cap
                    /\ vol' = t.vol
                    /\ total_trade_cost' = MAdd(total_trade_cost, t.cost)
                    /\ trade_reasons' = Append(trade_reasons, Reason(t.bs))
                    /\ dates' = Append(dates, DateStr(date))
                    /\ prices' = Append(prices, new_price)
                    /\ capitals' = Append(capitals, t.cap)
                    /\ volumes' = Append(volumes, t.vol)
                    /\ trades' = Append(trades, t.bs)
                    /\ buy_hold_capitals' = Append(buy_hold_capitals, bh.cap)
                    /\ buy_hold_rebal_capitals' =
                         Append(buy_hold_rebal_capitals, bh_rebal_cap1)
                    /\ prev_date' = Some(date)
                    /\ price' = new_price
                    /\ i' = i + 1
                    /\ UNCHANGED <<pc, exc>>
    /\ UNCHANGED <<engine, data, result, history>>

----------------------------------------------------------------------------
(* The metrics pass (lines 285-326).  Ratios are kept as fractions         *)
(* [num, den] of amounts; two fractions are compared by cross              *)
(* multiplication, carried out on base-200 digits so that the products     *)
(* stay inside the model checker's integers.                               *)

\* The 7 signed base-200 digits of an amount's numerator over Scale
\* (Scale = 200 * 200), lowest first.
Digits(x) ==
    LET s == MSgn(x)
        a == MAbs(x)
    IN  [k \in 0..6 |->
           s * (CASE k = 0 -> a.m % 200
                  [] k = 1 -> a.m \div 200
                  [] k = 2 -> a.w % 200
                  [] k = 3 -> (a.w \div 200) % 200
                  [] k = 4 -> (a.w \div 40000) % 200
                  [] k = 5 -> (a.w \div 8000000) % 200
                  [] k = 6 -> a.w \div 1600000000)]

RECURSIVE HornerSign(_, _, _)
\* The sign of acc * 200^(k+1) + coef[k] * 200^k + ... + coef[0], where
\* each |coef[j]| < 600000: past 3000 the lower digits cannot change it.
HornerSign(coef, k, acc) ==
    IF k < 0 \/ Abs(acc) >= 3000 THEN Sgn(acc)
    ELSE HornerSign(coef, k - 1, acc * 200 + coef[k])

\* The sign of a * b - c * d, for amounts a, b, c, d.
CmpProd(a, b, c, d) ==
    LET da == Digits(a)
        db == Digits(b)
        dc == Digits(c)
        dd == Digits(d)
        term(k, j) == IF k - j \in 0..6
                      THEN da[j] * db[k - j] - dc[j] * dd[k - j]
                      ELSE 0
        coef == [k \in 0..12 |->
                   term(k, 0) + term(k, 1) + term(k, 2) + term(k, 3)
                     + term(k, 4) + term(k, 5) + term(k, 6)]
    IN  HornerSign(coef, 12, 0)

\* x < y for fractions with positive denominators.
FracLt(x, y) == CmpProd(x.num, y.den, y.num, x.den) < 0

RECURSIVE DrawdownFromStart(_, _, _, _)
\* Mutant of DrawdownFrom: the peak is not accumulated, every drawdown is
\* measured from the first capital.
DrawdownFromStart(cs, k, peak, best) ==
    IF k > Len(cs) THEN best
    ELSE LET dd == [num |-> MSub(peak, cs[k]), den |-> peak]
         IN  DrawdownFromStart(cs, k + 1, peak,
                               IF FracLt(best, dd) THEN dd ELSE best)

RECURSIVE DrawdownFrom(_, _, _, _)
\* Lines 296-298: np.maximum.accumulate, (peak - arr) / peak and np.max,
\* folded over the records k..Len(cs) with the running peak so far and the
\* largest drawdown so far.
DrawdownFrom(cs, k, peak, best) ==
    IF k > Len(cs) THEN best
    ELSE LET pk == MMax(peak, cs[k])
             dd == [num |-> MSub(pk, cs[k]), den |-> pk]
         IN  DrawdownFrom(cs, k + 1, pk,
                          IF FracLt(best, dd) THEN dd ELSE best)

MaxDrawdown(cs) ==
    DrawdownFrom(cs, 2, cs[1], [num |-> MInt(0), den |-> cs[1]])

\* Lines 289, 308, 320: (last - initial_capital) / initial_capital.
Return(last, initial) ==
    [num |-> MSub(last, MInt(initial)), den |-> MInt(initial)]

\* Lines 292-293, 311: (1 + total_return) ** (1 / years) - 1 with
\* years = n / 252, kept as the growth factor and the exponent 252 / n;
\* 0 when years is not positive.
Annualized(last, initial, n) ==
    IF n > 0
    THEN [growth |-> [num |-> last, den |-> MInt(initial)],
          exponent |-> [num |-> 252, den |-> n]]
    ELSE [growth |-> [num |-> MInt(1), den |-> MInt(1)],
          exponent |-> [num |-> 1, den |-> 1]]

\* Whether an annualized return is 0: the growth factor is 1.
AnnualIsZero(a) == a.growth.num = a.growth.den

\* Line 302: len(daily_returns) > 0 and np.std(daily_returns) > 0.  The
\* returns are cs[k+1]/cs[k] - 1; a zero divisor makes the deviation nan,
\* which is not > 0; otherwise the deviation is positive iff two returns
\* differ.
ReturnsVary(cs) ==
    /\ Len(cs) > 1
    /\ \A k \in 1..(Len(cs) - 1) : MSgn(cs[k]) # 0
    /\ \E k \in 2..(Len(cs) - 1) :
          CmpProd(cs[k + 1], cs[1], cs[2], cs[k]) # 0

\* Lines 301-305: the value of line 303's formula is not computed, only
\* told apart from the fallback 0.
SharpeRatio(cs) == IF ReturnsVary(cs) THEN "formula" ELSE "0"

RECURSIVE SumAll(_, _, _)
\* Mutant of SumIf: the sum of all the entries, whatever their sign.
SumAll(ts, k, sign) ==
    IF k = 0 THEN 0 ELSE SumAll(ts, k - 1, sign) + ts[k]

RECURSIVE SumIf(_, _, _)
\* Sum of the entries of trades[1..k] with the given sign.
SumIf(ts, k, sign) ==
    IF k = 0 THEN 0
    ELSE SumIf(ts, k - 1, sign) + (IF Sgn(ts[k]) = sign THEN ts[k] ELSE 0)

\* Lines 285-348.
RunFinish ==
    /\ pc = "loop"
    /\ i = Len(data)
    /\ IF Len(buy_hold_rebal_capitals) = 0
       THEN \* line 320: buy_hold_rebal_capitals[-1] of an empty list
            /\ Raise("IndexError")
            /\ UNCHANGED result
       ELSE /\ pc' = "returned"
            /\ exc' = exc
            /\ result' = Some(
                 [ total_return |->
                     Return(capitals[Len(capitals)], engine.initial_capital),
                   annual_return |->
                     Annualized(capitals[Len(capitals)],
                                engine.initial_capital, Len(data)),
                   max_drawdown |-> MaxDrawdown(capitals),
                   sharpe_ratio |-> SharpeRatio(capitals),
                   buy_hold_return |->
                     Return(buy_hold_capitals[Len(buy_hold_capitals)],
                            engine.initial_capital),
                   buy_hold_annual_return |->
                     Annualized(buy_hold_capitals[Len(buy_hold_capitals)],
                                engine.initial_capital, Len(data)),
                   buy_hold_mdd |-> MaxDrawdown(buy_hold_capitals),
                   buy_hold_rebal_return |->
                     Return(buy_hold_rebal_capitals[
                                Len(buy_hold_rebal_capitals)],
                            engine.initial_capital),
                   total_trades |->
                     Cardinality({k \in 1..Len(trades) : trades[k] # 0}),
                   total_buy_volume |-> SumIf(trades, Len(trades), 1),
                   total_sell_volume |->
                     Abs(SumIf(trades, Len(trades), -1)) ])
    /\ UNCHANGED <<engine, data, i, locals, arrays, history>>

Next == RunBegin \/ LoopFirst \/ LoopStep \/ RunFinish

\* Runs on well-formed series.
Spec == Init /\ [][Next]_vars

\* Runs on any series.
SpecAny == InitAny /\ [][Next]_vars

----------------------------------------------------------------------------
(* A second call of run() on the same series, as the callers make them     *)
(* (api.py lines 44-78 run three engines on one hist_data).                *)

\* What a finished call hands its caller: the BacktestResult's arrays and
\* scalars, or the exception.
Outcome ==
    IF pc = "returned"
    THEN [engine |-> engine, data |-> data, status |-> pc, exc |-> exc,
          result |-> result, dates |-> dates, prices |-> prices,
          capitals |-> capitals, volumes |-> volumes, trades |-> trades,
          trade_reasons |-> trade_reasons,
          buy_hold_capitals |-> buy_hold_capitals,
          buy_hold_rebal_capitals |-> buy_hold_rebal_capitals]
    ELSE [engine |-> engine, data |-> data, status |-> pc, exc |-> exc,
          result |-> None, dates |-> << >>, prices |-> << >>,
          capitals |-> << >>, volumes |-> << >>, trades |-> << >>,
          trade_reasons |-> << >>, buy_hold_capitals |-> << >>,
          buy_hold_rebal_capitals |-> << >>]

\* After a first call has finished, the caller keeps its outcome and calls
\* run() on the same series with engine e2 (the same instance, or another
\* one it constructed).
Rerun(e2) ==
    /\ pc = "returned" \/ pc = "raised"
    /\ history = << >>
    /\ history' = <<Outcome>>
    /\ engine' = e2
    /\ pc' = "ready"
    /\ result' = None
    /\ exc' = None
    /\ UNCHANGED <<data, i, locals, arrays>>

\* run() called twice on one engine instance.
RerunSame == Rerun(engine)

\* The constructor's default fees and a carry rate, every leverage, cadence
\* and instrument mode.
RerunEngines ==
    { e \in Engines : e.fee_rate > 0 /\ e.backwardation_rate > 0 }

InitRerun ==
    /\ engine \in RerunEngines
    /\ \E n \in 1..MaxLen : data \in Frames(n, PriceSet)
    /\ Blank

\* Two runs of one configuration on one series.
SpecRerun == InitRerun /\ [][Next \/ RerunSame]_vars

\* The same configuration constructed with the other futures_mode.
RerunOtherMode == Rerun([engine EXCEPT !.futures_mode = ~@])

\* Cash-mode engines without carry.
CashEngines ==
    { e \in Engines : ~e.futures_mode /\ e.backwardation_rate = 0 }

InitModes ==
    /\ engine \in CashEngines
    /\ \E n \in 1..MaxLen : data \in Frames(n, PriceSet)
    /\ Blank

\* The same configuration constructed with another cadence and fee
\* schedule for the target.
RerunOtherTarget ==
    \E freq \in RebalanceFreqs, fees \in FeeSchedules :
        Rerun([engine EXCEPT !.rebalance_freq = freq,
                             !.fee_rate = fees.fee_rate,
                             !.tax_rate = fees.tax_rate,
                             !.futures_fee = fees.futures_fee])

\* Engines that rebalance per bar and pay nothing, with a carry rate.
FreeDailyEngines ==
    { e \in Engines : /\ e.rebalance_freq = "daily"
                      /\ e.fee_rate = 0 /\ e.tax_rate = 0
                      /\ e.futures_fee = 0
                      /\ e.backwardation_rate > 0 }

InitTargets ==
    /\ engine \in FreeDailyEngines
    /\ \E n \in 1..MaxLen : data \in Frames(n, PriceSet)
    /\ Blank

\* A run, then a run on the same series of an engine that differs in the
\* target's cadence and fees at most.
SpecTargets == InitTargets /\ [][Next \/ RerunOtherTarget]_vars

\* backwardation_rate is any float the caller passes (api.py line 37 divides
\* the request's number by 100): a negative one, none, a positive one.
AnyBackwardationRates == {0 - 2016, 0, 2016}

\* Engines with the constructor's default fees and any carry rate.
CarryEngines ==
    { Engine(f, 1000, freq, [fee_rate |-> 57, tax_rate |-> 120,
                             futures_fee |-> 22], futures, carry) :
        f \in KellyFs, freq \in RebalanceFreqs, futures \in BOOLEAN,
        carry \in AnyBackwardationRates }

InitCarry ==
    /\ engine \in CarryEngines
    /\ \E n \in 1..MaxLen : data \in Frames(n, PriceSet)
    /\ Blank

\* Runs under any carry rate.
SpecCarry == InitCarry /\ [][Next]_vars

\* A cash-mode run, then a contract-mode run of the same configuration on
\* the same series, both without carry.
SpecModes == InitModes /\ [][Next \/ RerunOtherMode]_vars

----------------------------------------------------------------------------
(* Properties.  The quantities below are recomputed from the recorded      *)
(* arrays and the configuration, not taken from the loop's locals.         *)

\* The P&L factor of one unit of position per point of price.
PointValue == IF engine.futures_mode THEN engine.contract_multiplier ELSE 1

\* Mark-to-market profit of record k on the position recorded at k-1.
RecordedPnl(k) == volumes[k - 1] * (prices[k] - prices[k - 1]) * PointValue

\* Carry income of record k (numerator over Scale) on a position held at
\* the price of record k-1.
CarryOn(position, k) ==
    IF engine.futures_mode /\ engine.daily_backwardation > 0
    THEN position * prices[k - 1] * engine.contract_multiplier
           * engine.daily_backwardation
    ELSE 0

\* Trading cost of the trade recorded at k; record 1 is never charged.
RecordedCost(k) ==
    IF k = 1 \/ trades[k] = 0 THEN MInt(0)
    ELSE IF engine.futures_mode
    THEN MInt(Abs(trades[k]) * engine.futures_fee)
    ELSE MNorm(0, Abs(trades[k] * prices[k])
                    * (engine.fee_rate
                       + (IF trades[k] < 0 THEN engine.tax_rate ELSE 0)))

\* C1: capital continuity.  For every record k after the first,
\* capitals[k] = capitals[k-1] + pnl[k] + carry[k] - cost[k], where pnl is
\* the profit on the position held before the step's rebalance, carry the
\* step's carry income and cost the cost of the step's trade, which is 0
\* when the trade is 0.
C1_CapitalContinuity ==
    \A k \in 2..Len(capitals) :
        /\ capitals[k] =
             MSub(MAdd(MAdd(capitals[k - 1], MInt(RecordedPnl(k))),
                       MNorm(0, CarryOn(volumes[k - 1], k))),
                  RecordedCost(k))
        /\ (trades[k] = 0 => RecordedCost(k) = MInt(0))

\* A finished run with a costly trade that also earned carry, and a step
\* without trade whose capital moved with the price.
C1_Witness ==
    /\ pc = "returned"
    /\ \E k \in 2..Len(capitals) :
          /\ trades[k] # 0
          /\ RecordedCost(k) # MInt(0)
          /\ CarryOn(volumes[k - 1], k) # 0
    /\ \E j \in 2..Len(capitals) : trades[j] = 0 /\ RecordedPnl(j) # 0

\* c * n, for an amount c and an integer n.
Times(c, n) == MNorm(c.w * n, c.m * n)

\* q = floor(c * f / unit), for unit > 0.
IsFloor(q, c, f, unit) ==
    /\ MLeq(MInt(q * f.den * unit), Times(c, f.num))
    /\ MLt(Times(c, f.num), MInt((q + 1) * f.den * unit))

\* q = c * f / unit truncated toward zero, for unit > 0.
IsTrunc(q, c, f, unit) ==
    IF MSgn(c) >= 0 THEN IsFloor(q, c, f, unit)
    ELSE /\ MLeq(Times(c, f.num), MInt(q * f.den * unit))
         /\ MLt(MInt((q - 1) * f.den * unit), Times(c, f.num))

\* Record k is a rebalance event: the first record, or a later one where
\* the configured cadence says so.
RebalanceEvent(k) ==
    \/ k = 1
    \/ engine.rebalance_freq = "daily"
    \/ /\ engine.rebalance_freq = "weekly"
       /\ IsoWeek(data[k].DATE) # IsoWeek(data[k - 1].DATE)
    \/ /\ engine.rebalance_freq = "monthly"
       /\ Month(data[k].DATE) # Month(data[k - 1].DATE)

\* C2 as claimed: every recorded position is an integer and, at every
\* rebalance event, equals floor(capital * f / (price * multiplier)) of the
\* capital and price recorded for that step.
C2_Original ==
    \A k \in 1..Len(volumes) :
        /\ volumes[k] \in Int
        /\ RebalanceEvent(k) =>
             IsFloor(volumes[k], capitals[k], engine.f,
                     prices[k] * PointValue)

\* C2 as amended: every recorded position is an integer; at every rebalance
\* event it equals capital * f / (price * multiplier) truncated toward
\* zero, for the capital before the step's trading cost is deducted (the
\* recorded capital plus that cost); at any other step it is the previous
\* position.
C2_PositionSizing ==
    \A k \in 1..Len(volumes) :
        /\ volumes[k] \in Int
        /\ RebalanceEvent(k) =>
             IsTrunc(volumes[k], MAdd(capitals[k], RecordedCost(k)),
                     engine.f, prices[k] * PointValue)
        /\ ~RebalanceEvent(k) => volumes[k] = volumes[k - 1]

\* A finished run that rebalanced, at a cost, from a negative capital where
\* truncation and floor differ, and that skipped a rebalance at another
\* step.
C2_Witness ==
    /\ pc = "returned"
    /\ \E k \in 2..Len(volumes) :
          /\ RebalanceEvent(k)
          /\ trades[k] # 0
          /\ RecordedCost(k) # MInt(0)
          /\ MSgn(capitals[k]) < 0
          /\ ~IsFloor(volumes[k], MAdd(capitals[k], RecordedCost(k)),
                      engine.f, prices[k] * PointValue)
    /\ \E j \in 2..Len(volumes) : ~RebalanceEvent(j)

\* C3: the static baseline.  Once sized before the loop, its position is
\* the initial sizing in every later state, the final one included, and
\* every recorded capital of it is the previous one plus the profit and the
\* carry on that position: no rebalance, no trading cost.
C3_StaticBaseline ==
    (pc = "loop" \/ pc = "returned") =>
        /\ IsTrunc(bh_vol, MInt(engine.initial_capital), engine.f,
                   data[1].CLOSE * PointValue)
        /\ \A k \in 2..Len(buy_hold_capitals) :
              buy_hold_capitals[k] =
                MAdd(MAdd(buy_hold_capitals[k - 1],
                          MInt(bh_vol * (prices[k] - prices[k - 1])
                                 * PointValue)),
                     MNorm(0, CarryOn(bh_vol, k)))

\* A finished run of three records in which the target strategy and the
\* monthly baseline both moved away from the static baseline's position.
C3_Witness ==
    /\ pc = "returned"
    /\ Len(buy_hold_capitals) >= 3
    /\ bh_vol # 0
    /\ vol # bh_vol
    /\ bh_rebal_vol # bh_vol
    /\ buy_hold_capitals[Len(buy_hold_capitals)] # buy_hold_capitals[1]

\* The running peak of cs at record k: the largest of cs[1..k].
PeakAt(cs, k) ==
    CHOOSE c \in {cs[j] : j \in 1..k} : \A j \in 1..k : MLeq(cs[j], c)

\* The drawdown of cs at record k.
DrawdownAt(cs, k) ==
    [num |-> MSub(PeakAt(cs, k), cs[k]), den |-> PeakAt(cs, k)]

\* d is the largest drawdown of cs.
IsMaxDrawdown(d, cs) ==
    /\ \A k \in 1..Len(cs) : ~FracLt(d, DrawdownAt(cs, k))
    /\ \E k \in 1..Len(cs) :
          CmpProd(d.num, DrawdownAt(cs, k).den,
                  DrawdownAt(cs, k).num, d.den) = 0

\* 0 <= d <= 1, for a fraction with a positive denominator.
InUnitInterval(d) == MSgn(d.num) >= 0 /\ MLeq(d.num, d.den)

\* C4 as claimed: max_drawdown and buy_hold_mdd of every returned result lie
\* in [0, 1].
C4_Original ==
    result # None =>
        /\ InUnitInterval(result[1].max_drawdown)
        /\ InUnitInterval(result[1].buy_hold_mdd)

\* C4 as amended: max_drawdown (and buy_hold_mdd) is the largest over the
\* records of (runningPeak - capital) / runningPeak, is never negative, is 0
\* at a record that attains the running peak, and is at most 1 exactly when
\* no capital of the trajectory is negative.
C4_DrawdownBound ==
    result # None =>
        /\ IsMaxDrawdown(result[1].max_drawdown, capitals)
        /\ IsMaxDrawdown(result[1].buy_hold_mdd, buy_hold_capitals)
        /\ MSgn(result[1].max_drawdown.num) >= 0
        /\ MSgn(result[1].buy_hold_mdd.num) >= 0
        /\ \A k \in 1..Len(capitals) :
              capitals[k] = PeakAt(capitals, k) =>
                 DrawdownAt(capitals, k).num = MInt(0)
        /\ InUnitInterval(result[1].max_drawdown)
             <=> \A k \in 1..Len(capitals) : MSgn(capitals[k]) >= 0
        /\ InUnitInterval(result[1].buy_hold_mdd)
             <=> \A k \in 1..Len(buy_hold_capitals) :
                    MSgn(buy_hold_capitals[k]) >= 0

\* A returned run whose capital fell below the initial capital, never below
\* zero, and ended on a new all-time high: a positive drawdown within
\* [0, 1], and a last record that attains the running peak.
C4_Witness ==
    /\ result # None
    /\ Len(capitals) >= 3
    /\ MSgn(result[1].max_drawdown.num) > 0
    /\ InUnitInterval(result[1].max_drawdown)
    /\ MLt(capitals[2], capitals[1])
    /\ MLt(capitals[1], capitals[Len(capitals)])
    /\ capitals[Len(capitals)] = PeakAt(capitals, Len(capitals))

\* C5: a series of one record (price > 0) makes run return, with annualized
\* return 0 and Sharpe ratio 0, and raise nothing.
C5_SingleRecord ==
    (Len(data) = 1 /\ (pc = "returned" \/ pc = "raised")) =>
        /\ pc = "returned"
        /\ exc = None
        /\ AnnualIsZero(result[1].annual_return)
        /\ result[1].sharpe_ratio = "0"

\* C6: run never returns a result from an empty series or from one holding
\* a non-positive closing price.
C6_BadInputFails ==
    (Len(data) = 0 \/ \E k \in 1..Len(data) : data[k].CLOSE <= 0) =>
        pc # "returned"

\* C7: in a returned result every per-step array has one entry per record
\* of the series, and the entries of record k are record k's date and
\* price.
C7_ParallelArrays ==
    pc = "returned" =>
        /\ Len(dates) = Len(data)
        /\ Len(prices) = Len(data)
        /\ Len(capitals) = Len(data)
        /\ Len(volumes) = Len(data)
        /\ Len(trades) = Len(data)
        /\ Len(trade_reasons) = Len(data)
        /\ Len(buy_hold_capitals) = Len(data)
        /\ Len(buy_hold_rebal_capitals) = Len(data)
        /\ \A k \in 1..Len(data) :
              dates[k] = DateStr(data[k].DATE) /\ prices[k] = data[k].CLOSE

\* C8: the first record is a full entry.  Its trade is its position, the
\* floor of initial capital * f / (first price * multiplier); its capital
\* is the initial capital; it is tagged as the initial entry; and right
\* after it no cost has been charged and the locals are the recorded
\* values.
C8_FirstRecord ==
    Len(trades) >= 1 =>
        /\ trades[1] = volumes[1]
        /\ IsFloor(volumes[1], MInt(engine.initial_capital), engine.f,
                   prices[1] * PointValue)
        /\ capitals[1] = MInt(engine.initial_capital)
        /\ trade_reasons[1] = "initial entry"
        /\ prices[1] = data[1].CLOSE
        /\ Len(trades) = 1 =>
              /\ total_trade_cost = MInt(0)
              /\ cap = MInt(engine.initial_capital)
              /\ vol = volumes[1]

\* Right after the first record of a run with fees configured, on a
\* cadence that is not per-bar: a position was entered.
C8_Witness ==
    /\ pc = "loop"
    /\ Len(trades) = 1
    /\ trades[1] > 0
    /\ engine.fee_rate > 0
    /\ engine.rebalance_freq = "monthly"

\* C9: on run_simple_test's path with per-bar rebalancing, kelly_f = 0.5
\* buys at every decline step and sells at every rise step, and
\* kelly_f = 2.0 sells at every decline step and buys at every rise step.
C9_ReferenceDirections ==
    (data = ReferenceFrame /\ engine.rebalance_freq = "daily") =>
        \A k \in 2..Len(trades) :
            /\ (engine.f = Half /\ prices[k] < prices[k - 1]) => trades[k] > 0
            /\ (engine.f = Half /\ prices[k] > prices[k - 1]) => trades[k] < 0
            /\ (engine.f = Two /\ prices[k] < prices[k - 1]) => trades[k] < 0
            /\ (engine.f = Two /\ prices[k] > prices[k - 1]) => trades[k] > 0
            /\ prices[k] # prices[k - 1]
            /\ (prices[k] < prices[k - 1]) <=> (k <= 6)

\* The reference run with kelly_f = 2.0, returned, all eleven records made.
C9_Witness ==
    /\ data = ReferenceFrame
    /\ engine.f = Two
    /\ pc = "returned"
    /\ Len(trades) = 11
    /\ trades[6] < 0
    /\ trades[7] > 0

\* C10: with kelly_f = 1 every trade after the first record is 0.
C10_UnitLeverageHolds ==
    engine.f = One => \A k \in 2..Len(trades) : trades[k] = 0

\* C11: under per-bar rebalancing, kelly_f < 1 never sells at a step whose
\* price fell and never buys at a step whose price rose, and kelly_f > 1
\* never buys at a step whose price fell and never sells at a step whose
\* price rose, whatever the price path and the fee schedule.
C11_Directions ==
    engine.rebalance_freq = "daily" =>
        \A k \in 2..Len(trades) :
            /\ (engine.f = Half /\ prices[k] < prices[k - 1]) => trades[k] >= 0
            /\ (engine.f = Half /\ prices[k] > prices[k - 1]) => trades[k] <= 0
            /\ (engine.f = Two /\ prices[k] < prices[k - 1]) => trades[k] <= 0
            /\ (engine.f = Two /\ prices[k] > prices[k - 1]) => trades[k] >= 0

\* C12: a second run with the same configuration on the same series ends as
\* the first did, with the same arrays and the same metrics (or the same
\* exception), and at no point of either run has the configuration or the
\* series changed.
C12_Determinism ==
    history # << >> =>
        /\ engine = history[1].engine
        /\ data = history[1].data
        /\ (pc = "returned" \/ pc = "raised") =>
              /\ pc = history[1].status
              /\ exc = history[1].exc
              /\ result = history[1].result
              /\ pc = "returned" =>
                    /\ dates = history[1].dates
                    /\ prices = history[1].prices
                    /\ capitals = history[1].capitals
                    /\ volumes = history[1].volumes
                    /\ trades = history[1].trades
                    /\ trade_reasons = history[1].trade_reasons
                    /\ buy_hold_capitals = history[1].buy_hold_capitals
                    /\ buy_hold_rebal_capitals =
                         history[1].buy_hold_rebal_capitals

\* A second run has returned after a first one that returned, on a series
\* of three records with a trade after the first record.
C12_Witness ==
    /\ history # << >>
    /\ history[1].status = "returned"
    /\ pc = "returned"
    /\ Len(capitals) >= 3
    /\ \E k \in 2..Len(trades) : trades[k] # 0

\* n / d truncated toward zero, for d > 0.
TruncDiv(n, d) == Sgn(n) * (Abs(n) \div d)

\* A contract-mode run has returned after a cash-mode run of the same
\* configuration without carry that returned.
ModesCompared ==
    /\ history # << >>
    /\ history[1].status = "returned"
    /\ pc = "returned"
    /\ engine.futures_mode
    /\ engine.backwardation_rate = 0

Bought ==
    LET B[k \in 0..Len(trades)] ==
            IF k = 0 THEN 0
            ELSE B[k - 1] + (IF trades[k] > 0 THEN trades[k] ELSE 0)
    IN  B[Len(trades)]

Sold ==
    LET S[k \in 0..Len(trades)] ==
            IF k = 0 THEN 0
            ELSE S[k - 1] + (IF trades[k] < 0 THEN 0 - trades[k] ELSE 0)
    IN  S[Len(trades)]

Traded ==
    LET T[k \in 0..Len(trades)] ==
            IF k = 0 THEN 0
            ELSE T[k - 1] + (IF trades[k] = 0 THEN 0 ELSE 1)
    IN  T[Len(trades)]

\* C14: in every returned result, total_trades is the number of records
\* whose trade is not 0, total_buy_volume the sum of the positive trades
\* and total_sell_volume the absolute value of the sum of the negative
\* trades, over the recorded trades array (the first record's entry
\* included).
C14_TradeStatistics ==
    pc = "returned" =>
        /\ result[1].total_trades = Traded
        /\ result[1].total_buy_volume = Bought
        /\ result[1].total_sell_volume = Sold

\* A returned run that bought at the first record, held at one step and
\* sold at another.
C14_Witness ==
    /\ pc = "returned"
    /\ trades[1] > 0
    /\ \E k \in 2..Len(trades) : trades[k] = 0
    /\ \E k \in 2..Len(trades) : trades[k] < 0
    /\ result[1].total_sell_volume > 0
    /\ result[1].total_trades = 2

\* The cadence's decision at record k >= 2, from the dates of the series:
\* always with per-bar cadence, a different ISO week number with weekly
\* cadence, a different month number with monthly cadence.
CadenceSays(k) ==
    CASE engine.rebalance_freq = "daily" -> TRUE
      [] engine.rebalance_freq = "weekly" ->
           IsoWeek(data[k].DATE) # IsoWeek(data[k - 1].DATE)
      [] engine.rebalance_freq = "monthly" ->
           Month(data[k].DATE) # Month(data[k - 1].DATE)

\* C15: at every record k after the first, the target rebalances exactly
\* when its cadence says so: then its position is the one sized from the
\* capital before the step's cost and the trade is the change of position;
\* otherwise the trade is 0 and the position is the previous one.  Between
\* steps the engine remembers the date of the last record as the previous
\* date.
C15_CadenceDecision ==
    /\ \A k \in 2..Len(trades) :
          IF CadenceSays(k)
          THEN /\ IsTrunc(volumes[k], MAdd(capitals[k], RecordedCost(k)),
                          engine.f, prices[k] * PointValue)
               /\ trades[k] = volumes[k] - volumes[k - 1]
          ELSE /\ trades[k] = 0
               /\ volumes[k] = volumes[k - 1]
    /\ (pc = "loop" /\ i >= 1) => prev_date = Some(data[i].DATE)

\* A returned run with a weekly or monthly cadence that held its position
\* over a price change at one step and traded at another.
C15_Witness ==
    /\ pc = "returned"
    /\ engine.rebalance_freq # "daily"
    /\ \E k \in 2..Len(trades) :
          /\ ~CadenceSays(k)
          /\ prices[k] # prices[k - 1]
          /\ trades[k] = 0
    /\ \E k \in 2..Len(trades) :
          /\ CadenceSays(k)
          /\ trades[k] # 0

\* The record a step of the loop is about to process, and the one before.
StepRow == data[i + 1]

PrevRow == data[i]

\* Carry income (numerator over Scale) of the step being taken on a
\* position held at the pre-step price, under the given accrual condition.
StepCarry(position, accrues) ==
    IF accrues
    THEN position * PrevRow.CLOSE * engine.contract_multiplier
           * engine.daily_backwardation
    ELSE 0

\* The monthly baseline across one step of the loop after the first
\* record: its capital takes the profit and the carry on its position and
\* no cost; when it has no month recorded or the step's month differs from
\* the recorded one, its position Fits its new capital at the step's price
\* and the month is recorded; otherwise position and month stay.
MonthlyBaselineStep(Fits(_, _, _, _)) ==
    (pc = "loop" /\ i >= 1 /\ i' = i + 1) =>
        LET due == \/ bh_rebal_prev_month = None
                   \/ Month(StepRow.DATE) # bh_rebal_prev_month[1]
            gain == bh_rebal_vol * (StepRow.CLOSE - PrevRow.CLOSE)
                      * PointValue
            carry == StepCarry(bh_rebal_vol,
                               engine.futures_mode
                                 /\ engine.daily_backwardation > 0)
        IN  /\ bh_rebal_cap' =
                  MAdd(MAdd(bh_rebal_cap, MInt(gain)), MNorm(0, carry))
            /\ buy_hold_rebal_capitals' =
                  Append(buy_hold_rebal_capitals, bh_rebal_cap')
            /\ IF due
               THEN /\ Fits(bh_rebal_vol', bh_rebal_cap', engine.f,
                            StepRow.CLOSE * PointValue)
                    /\ bh_rebal_prev_month' = Some(Month(StepRow.DATE))
               ELSE /\ bh_rebal_vol' = bh_rebal_vol
                    /\ bh_rebal_prev_month' = bh_rebal_prev_month

\* C16 as claimed: the monthly baseline's step, with the re-sized position
\* equal to floor(capital * f / (new price * multiplier_or_1)).
C16_Original == [][MonthlyBaselineStep(IsFloor)]_vars

\* C16, amended: at every step after the first record the monthly
\* baseline's capital changes by profit and carry only (no cost), and its
\* position is re-sized, to capital * f / (new price * multiplier_or_1)
\* truncated toward zero, exactly when no month is recorded for it yet or
\* the step's month differs from the recorded one; otherwise the position
\* is unchanged.
C16_MonthlyBaseline == [][MonthlyBaselineStep(IsTrunc)]_vars

\* Three records made: the baseline was re-sized in January at the second
\* record and again in February at the third, and its capital has left the
\* static baseline's.
C16_Witness ==
    /\ pc = "loop"
    /\ i = 3
    /\ Month(data[2].DATE) = 1
    /\ bh_rebal_prev_month = Some(2)
    /\ bh_rebal_vol # bh_vol
    /\ bh_rebal_cap # bh_cap

\* The cost of trading bs units at price p, as the claim states it.
ClaimedCost(bs, p) ==
    IF engine.futures_mode
    THEN MInt(Abs(bs) * engine.futures_fee)
    ELSE MAdd(MNorm(0, Abs(bs * p) * engine.fee_rate),
              IF bs < 0 THEN MNorm(0, Abs(bs * p) * engine.tax_rate)
              ELSE MInt(0))

\* The target across one step of the loop after the first record, bs being
\* the change of its position: the capital takes profit and carry and
\* loses the cost of bs at the new price, the running total of costs grows
\* by it, and the step records bs, the new capital and the new position.
TargetStep ==
    (pc = "loop" /\ i >= 1 /\ i' = i + 1) =>
        LET bs == vol' - vol
            gain == vol * (StepRow.CLOSE - PrevRow.CLOSE) * PointValue
            carry == StepCarry(vol, engine.futures_mode
                                      /\ engine.daily_backwardation > 0)
            before == MAdd(MAdd(cap, MInt(gain)), MNorm(0, carry))
            cost == ClaimedCost(bs, StepRow.CLOSE)
        IN  /\ cap' = MSub(before, cost)
            /\ total_trade_cost' = MAdd(total_trade_cost, cost)
            /\ trades' = Append(trades, bs)
            /\ capitals' = Append(capitals, cap')
            /\ volumes' = Append(volumes, vol')
            /\ CadenceSays(i + 1) =>
                  IsTrunc(vol', before, engine.f, StepRow.CLOSE * PointValue)

\* C17: at every step after the first record, the cost of the target's
\* trade bs at the new price p' is |bs| * futures_fee in contract mode and
\* |bs * p'| * fee_rate, plus |bs * p'| * tax_rate when bs < 0, in cash
\* mode; it is deducted from the target's capital in that step, and the
\* position is set to the target.
C17_TradingCost == [][TargetStep]_vars

\* A cash-mode run with fees that bought at the second record and sold at
\* the third, and has paid for both.
C17_Witness ==
    /\ pc = "loop"
    /\ i = 3
    /\ ~engine.futures_mode
    /\ engine.fee_rate > 0 /\ engine.tax_rate > 0
    /\ trades[2] > 0
    /\ trades[3] < 0
    /\ total_trade_cost =
         MAdd(ClaimedCost(trades[2], prices[2]),
              ClaimedCost(trades[3], prices[3]))
    /\ MSgn(total_trade_cost) > 0

\* The three tracked states across one step of the loop after the first
\* record, the carry accruing under the given condition: each capital takes
\* the profit and the carry on its own position held before the step, at
\* the pre-step price; the target is then sized from that capital and pays
\* its trade; the static baseline keeps its position; the monthly baseline,
\* when due, is sized from its updated capital at the post-step price.
CarryStep(accrues) ==
    (pc = "loop" /\ i >= 1 /\ i' = i + 1) =>
        LET dp == StepRow.CLOSE - PrevRow.CLOSE
            After(capital, position) ==
                MAdd(MAdd(capital, MInt(position * dp * PointValue)),
                     MNorm(0, StepCarry(position, accrues)))
            due == \/ bh_rebal_prev_month = None
                   \/ Month(StepRow.DATE) # bh_rebal_prev_month[1]
        IN  /\ cap' = MSub(After(cap, vol),
                           ClaimedCost(vol' - vol, StepRow.CLOSE))
            /\ CadenceSays(i + 1) =>
                  IsTrunc(vol', After(cap, vol), engine.f,
                          StepRow.CLOSE * PointValue)
            /\ bh_cap' = After(bh_cap, bh_vol)
            /\ bh_vol' = bh_vol
            /\ bh_rebal_cap' = After(bh_rebal_cap, bh_rebal_vol)
            /\ due => IsTrunc(bh_rebal_vol', bh_rebal_cap', engine.f,
                              StepRow.CLOSE * PointValue)
            /\ buy_hold_capitals' = Append(buy_hold_capitals, bh_cap')
            /\ buy_hold_rebal_capitals' =
                  Append(buy_hold_rebal_capitals, bh_rebal_cap')

\* C18 as claimed: in contract mode every step accrues, for each of the
\* three states, position * pre-step price * multiplier * (annual rate /
\* 252), whatever the configured rate; in cash mode nothing accrues.
C18_Original == [][CarryStep(engine.futures_mode)]_vars

\* C18, amended: the carry accrues in contract mode when the configured
\* annual rate is positive, and only then: each of the three states
\* receives its position held before the step * pre-step price *
\* multiplier * (annual rate / 252), added to the step's profit before any
\* rebalancing; the monthly baseline is then sized at the post-step price
\* from its updated capital; in cash mode, or with a rate of zero or
\* below, nothing accrues.
C18_CarryAccrual ==
    [][CarryStep(engine.futures_mode /\ engine.backwardation_rate > 0)]_vars

\* A contract-mode run with a positive rate, three records made over a
\* change of month, in which each of the three states has earned carry at
\* the last step on a position of its own.
C18_Witness ==
    /\ pc = "loop"
    /\ i = 3
    /\ engine.futures_mode
    /\ engine.backwardation_rate > 0
    /\ bh_rebal_prev_month = Some(2)
    /\ Month(data[2].DATE) = 1
    /\ prices[3] # prices[2]
    /\ volumes[2] > 0 /\ bh_vol > 0 /\ bh_rebal_vol > 0
    /\ volumes[2] # bh_vol
    /\ bh_rebal_cap # bh_cap
    /\ bh_rebal_cap # cap

\* C19: every record carries exactly one rationale tag, that of its own
\* trade: the first record is tagged as the initial entry, and a later
\* record k as an addition when trades[k] > 0, a reduction when
\* trades[k] < 0 and a hold when trades[k] = 0.
C19_RationaleTag ==
    /\ Len(trade_reasons) = Len(trades)
    /\ \A k \in 1..Len(trade_reasons) :
          trade_reasons[k] =
            CASE k = 1 -> "initial entry"
              [] k > 1 /\ trades[k] > 0 -> "add on decline"
              [] k > 1 /\ trades[k] < 0 -> "reduce on rise"
              [] k > 1 /\ trades[k] = 0 -> "hold"

\* A returned run whose records after the first carry a hold and a
\* reduction, or a hold and an addition.
C19_Witness ==
    /\ pc = "returned"
    /\ Len(trade_reasons) = 3
    /\ trade_reasons[1] = "initial entry"
    /\ trade_reasons[2] = "hold"
    /\ trade_reasons[3] \in {"add on decline", "reduce on rise"}
    /\ trades[3] # 0

\* A run has returned after a returned run of an engine with the same
\* leverage, initial capital, instrument mode and carry rate on the same
\* series.
TargetsCompared ==
    /\ history # << >>
    /\ history[1].status = "returned"
    /\ pc = "returned"
    /\ data = history[1].data
    /\ engine.f = history[1].engine.f
    /\ engine.initial_capital = history[1].engine.initial_capital
    /\ engine.futures_mode = history[1].engine.futures_mode
    /\ engine.contract_multiplier = history[1].engine.contract_multiplier
    /\ engine.backwardation_rate = history[1].engine.backwardation_rate

\* C20: two runs on one series that differ only in the target's cadence
\* or fee schedule record the same capitals for the static baseline and
\* for the monthly baseline, and so the same baseline metrics.
C20_BaselinesIndependent ==
    TargetsCompared =>
        /\ buy_hold_capitals = history[1].buy_hold_capitals
        /\ buy_hold_rebal_capitals = history[1].buy_hold_rebal_capitals
        /\ result[1].buy_hold_return = history[1].result[1].buy_hold_return
        /\ result[1].buy_hold_annual_return =
             history[1].result[1].buy_hold_annual_return
        /\ result[1].buy_hold_mdd = history[1].result[1].buy_hold_mdd
        /\ result[1].buy_hold_rebal_return =
             history[1].result[1].buy_hold_rebal_return

\* Two returned runs of three records that differ in cadence and in fees,
\* whose targets traded differently and ended on different capitals, while
\* both baselines moved.
C20_Witness ==
    /\ TargetsCompared
    /\ engine.rebalance_freq # history[1].engine.rebalance_freq
    /\ engine.fee_rate # history[1].engine.fee_rate
    /\ Len(capitals) = 3
    /\ trades # history[1].trades
    /\ capitals[3] # history[1].capitals[3]
    /\ buy_hold_capitals[3] # buy_hold_capitals[1]
    /\ buy_hold_rebal_capitals[2] # buy_hold_capitals[3]

\* The net of the first k recorded trades.
NetTraded(k) ==
    LET N[j \in 0..k] == IF j = 0 THEN 0 ELSE N[j - 1] + trades[j]
    IN  N[k]

\* C21: every recorded position is the sum of the trades recorded up to
\* and including its record, and in a returned result total_buy_volume
\* minus total_sell_volume is the last recorded position.
C21_Bookkeeping ==
    /\ Len(volumes) = Len(trades)
    /\ \A k \in 1..Len(volumes) : volumes[k] = NetTraded(k)
    /\ pc = "returned" =>
          result[1].total_buy_volume - result[1].total_sell_volume
            = volumes[Len(volumes)]

\* A returned run that bought at one step after the first record and sold
\* at another, ending on a position other than the initial one.
C21_Witness ==
    /\ pc = "returned"
    /\ Len(volumes) = 3
    /\ trades[2] * trades[3] < 0
    /\ volumes[3] # volumes[1]
    /\ result[1].total_sell_volume > 0
    /\ result[1].total_buy_volume > trades[1]

\* C22: with per-calendar-month cadence and no fee or tax, after every step
\* of the loop past the first record the target's capital and position are
\* those of the monthly baseline, and every capital recorded for the
\* target from the second record on is the one recorded for that baseline
\* at the same step.
C22_FrictionlessReference ==
    ( /\ engine.rebalance_freq = "monthly"
      /\ engine.fee_rate = 0 /\ engine.tax_rate = 0
      /\ engine.futures_fee = 0 ) =>
        /\ (pc = "loop" /\ i >= 2) =>
              /\ cap = bh_rebal_cap
              /\ vol = bh_rebal_vol
        /\ \A k \in 2..Len(capitals) :
              k - 1 <= Len(buy_hold_rebal_capitals) =>
                  capitals[k] = buy_hold_rebal_capitals[k - 1]

\* C23: whatever the leverage, cadence and fee schedule, a record tagged
\* as an addition on decline has a price below the previous record's, and
\* a record tagged as a reduction on rise has a price above it.
C23_TagsAgreeWithMove ==
    \A k \in 2..Len(trade_reasons) :
        /\ trade_reasons[k] = "add on decline" => prices[k] < prices[k - 1]
        /\ trade_reasons[k] = "reduce on rise" => prices[k] > prices[k - 1]

====
